---- MODULE Spec2Model ----
(***************************************************************************)
(* Padded geometric warps (padtransf.py): warpPerspectivePadded and        *)
(* warpAffinePadded.  One call of either function is a run of the state    *)
(* machine below: Init draws the arguments, each action is one block of    *)
(* the function body, and pc is the position in that body.                 *)
(*                                                                         *)
(* Numbers.  A real is an exact rational <<n, d>> in lowest terms with     *)
(* d > 0 (floating-point rounding is not modelled).  A division by zero    *)
(* gives what IEEE 754 gives: <<1, 0>> is +inf, <<-1, 0>> is -inf and      *)
(* <<0, 0>> is nan.  An integer produced by .astype(int) is a record       *)
(* [sat, v]: the value v when sat = "no", INT64_MIN + v when sat = "min"   *)
(* and INT64_MAX + v when sat = "max"; the last two come from the cast of  *)
(* a non-finite value.                                                     *)
(*                                                                         *)
(* Images.  An image is its height, its width and where its content comes  *)
(* from; borderMode and borderValue are handed on unchanged and are left   *)
(* out.  padTransf.py, the module test.py and example.py import, has the   *)
(* same two bodies with np.pad in the place of cv2.copyMakeBorder, and the *)
(* same return statement.                                                  *)
(***************************************************************************)
EXTENDS Integers, Sequences, FiniteSets, TLC

\* ------------------------------------------------------------- bounds
\* translations are -MaxT, 0 or MaxT pixels along each axis
MaxT == 1
\* source images are 1 or MaxSrc pixels wide and high
MaxSrc == 2
\* destination images are 1 or MaxDst pixels wide and high
MaxDst == 3
\* source points checked against the canvas lie on the grid of 1/GridDen pixels
GridDen == 2

\* ------------------------------------------------- OpenCV's constants
INTER_NEAREST == 0
INTER_LINEAR == 1
\* cv2.INTER_CUBIC, an interpolation method the functions do not name
INTER_CUBIC == INTER_LINEAR + 1
WARP_INVERSE_MAP == 16

\* ---------------------------------------------------------- rationals
Abs(n) == IF n < 0 THEN -n ELSE n

Sign(n) == IF n < 0 THEN -1 ELSE IF n > 0 THEN 1 ELSE 0

RECURSIVE GCD(_, _)
GCD(a, b) == IF b = 0 THEN a ELSE GCD(b, a % b)

\* n/d in lowest terms; n/0 is +inf, -inf or nan by the sign of n
Rat(n, d) ==
    IF d = 0 THEN <<Sign(n), 0>>
    ELSE LET g == GCD(Abs(n), Abs(d))
             s == IF d < 0 THEN -1 ELSE 1
         IN  <<(s * n) \div g, (s * d) \div g>>

R(n) == <<n, 1>>

IsFinite(a) == a[2] # 0

IsNaN(a) == a = <<0, 0>>

RAdd(a, b) == Rat(a[1] * b[2] + b[1] * a[2], a[2] * b[2])

RNeg(a) == <<-a[1], a[2]>>

RSub(a, b) == RAdd(a, RNeg(b))

RMul(a, b) == Rat(a[1] * b[1], a[2] * b[2])

\* true division of numpy: x / 0 is inf, -inf or nan
RDiv(a, b) == Rat(a[1] * b[2], a[2] * b[1])

\* a < b on finite values and the infinities (never called with a nan)
RLt(a, b) ==
    IF IsFinite(a) /\ IsFinite(b) THEN a[1] * b[2] < b[1] * a[2]
    ELSE IF ~IsFinite(a) /\ ~IsFinite(b) THEN a[1] < b[1]
    ELSE IF ~IsFinite(a) THEN a[1] < 0
    ELSE b[1] > 0

RLe(a, b) == a = b \/ RLt(a, b)

\* rounding toward zero in the place of np.floor
FloorTrunc(a) == IF a[1] < 0 THEN -((-a[1]) \div a[2]) ELSE a[1] \div a[2]

\* np.floor of a finite value: round toward negative infinity
Floor(a) == a[1] \div a[2]

\* rounding toward zero in the place of np.ceil
CeilTrunc(a) == IF a[1] < 0 THEN -((-a[1]) \div a[2]) ELSE a[1] \div a[2]

\* np.ceil of a finite value: round toward positive infinity
Ceil(a) == -((-a[1]) \div a[2])

\* ----------------------------------------------------------- matrices
Shape(A) == <<Len(A), Len(A[1])>>

RowScale(r, k) == <<RMul(r[1], k), RMul(r[2], k), RMul(r[3], k)>>

RowDiv(r, k) == <<RDiv(r[1], k), RDiv(r[2], k), RDiv(r[3], k)>>

\* A / k, element by element
MatDiv(A, k) ==
    IF Len(A) = 2 THEN <<RowDiv(A[1], k), RowDiv(A[2], k)>>
    ELSE <<RowDiv(A[1], k), RowDiv(A[2], k), RowDiv(A[3], k)>>

MatFinite(A) == \A i \in 1..Len(A) : \A j \in 1..Len(A[i]) : IsFinite(A[i][j])

\* A.dot(B) for 3x3 matrices
MatMul3(A, B) ==
    LET e(i, j) == RAdd(RAdd(RMul(A[i][1], B[1][j]), RMul(A[i][2], B[2][j])),
                        RMul(A[i][3], B[3][j]))
    IN  <<<<e(1, 1), e(1, 2), e(1, 3)>>,
          <<e(2, 1), e(2, 2), e(2, 3)>>,
          <<e(3, 1), e(3, 2), e(3, 3)>>>>

Zeros3 == <<<<R(0), R(0), R(0)>>, <<R(0), R(0), R(0)>>, <<R(0), R(0), R(0)>>>>

Eye3 == <<<<R(1), R(0), R(0)>>, <<R(0), R(1), R(0)>>, <<R(0), R(0), R(1)>>>>

Det2(a, b, c, d) == RSub(RMul(a, d), RMul(b, c))

Det3(A) ==
    RAdd(RSub(RMul(A[1][1], Det2(A[2][2], A[2][3], A[3][2], A[3][3])),
              RMul(A[1][2], Det2(A[2][1], A[2][3], A[3][1], A[3][3]))),
         RMul(A[1][3], Det2(A[2][1], A[2][2], A[3][1], A[3][2])))

\* the transposed cofactor matrix of a 3x3 matrix
Adj3(A) ==
    <<<<Det2(A[2][2], A[2][3], A[3][2], A[3][3]),
        Det2(A[1][3], A[1][2], A[3][3], A[3][2]),
        Det2(A[1][2], A[1][3], A[2][2], A[2][3])>>,
      <<Det2(A[2][3], A[2][1], A[3][3], A[3][1]),
        Det2(A[1][1], A[1][3], A[3][1], A[3][3]),
        Det2(A[1][3], A[1][1], A[2][3], A[2][1])>>,
      <<Det2(A[2][1], A[2][2], A[3][1], A[3][2]),
        Det2(A[1][2], A[1][1], A[3][2], A[3][1]),
        Det2(A[1][1], A[1][2], A[2][1], A[2][2])>>>>

\* cv2.invert(M): <<status, inverse>>; a singular M gives status 0 and zeros
cv2_invert(A) ==
    LET d == Det3(A)
    IN  IF d = R(0) THEN <<0, Zeros3>>
        ELSE <<1, MatDiv(Adj3(A), d)>>

\* cv2.invertAffineTransform(M): linear part inv(A), translation -inv(A) t;
\* a singular A gives the zero matrix, and no status at all
cv2_invertAffineTransform(A) ==
    LET d  == Det2(A[1][1], A[1][2], A[2][1], A[2][2])
        D  == IF d = R(0) THEN R(0) ELSE RDiv(R(1), d)
        i11 == RMul(A[2][2], D)
        i22 == RMul(A[1][1], D)
        i12 == RMul(RNeg(A[1][2]), D)
        i21 == RMul(RNeg(A[2][1]), D)
        b1 == RSub(RMul(RNeg(i11), A[1][3]), RMul(i12, A[2][3]))
        b2 == RSub(RMul(RNeg(i21), A[1][3]), RMul(i22, A[2][3]))
    IN  <<<<i11, i12, b1>>, <<i21, i22, b2>>>>

\* ------------------------------------------------ integers of numpy
\* [sat, v] is v, INT64_MIN + v or INT64_MAX + v
I64(n) == [sat |-> "no", v |-> n]

I64MIN == [sat |-> "min", v |-> 0]

I64MAX == [sat |-> "max", v |-> 0]

IsNeg(a) == a.sat = "min" \/ (a.sat = "no" /\ a.v < 0)

\* -a on an int64 that is negative: -INT64_MIN wraps to INT64_MIN
Neg64(a) == IF a.sat = "no" THEN I64(-a.v) ELSE a

\* what .astype(int) gives for inf, -inf or nan is not defined, and is
\* what the machine's conversion gives: x86-64 gives INT64_MIN for all
\* three, AArch64 saturates and gives 0 for nan
Machines == {"x86-64", "aarch64"}

AsTypeInt(a, mach) ==
    IF mach = "x86-64" THEN I64MIN
    ELSE IF IsNaN(a) THEN I64(0)
    ELSE IF a[1] > 0 THEN I64MAX
    ELSE I64MIN

\* np.floor(a).astype(int)
FloorInt(a, mach) == IF IsFinite(a) THEN I64(Floor(a)) ELSE AsTypeInt(a, mach)

\* np.ceil(a).astype(int)
CeilInt(a, mach) == IF IsFinite(a) THEN I64(Ceil(a)) ELSE AsTypeInt(a, mach)

\* np.min of a row: a nan propagates
NpMin(row) ==
    IF \E i \in 1..Len(row) : IsNaN(row[i]) THEN <<0, 0>>
    ELSE CHOOSE a \in {row[i] : i \in 1..Len(row)} :
            \A i \in 1..Len(row) : RLe(a, row[i])

\* np.max of a row: a nan propagates
NpMax(row) ==
    IF \E i \in 1..Len(row) : IsNaN(row[i]) THEN <<0, 0>>
    ELSE CHOOSE a \in {row[i] : i \in 1..Len(row)} :
            \A i \in 1..Len(row) : RLe(row[i], a)

\* ------------------------------------------------------------- inputs
Translations == {R(-MaxT), R(0), R(MaxT)}

\* the 2x2 parts: identity, half scale, quarter turn, shear, a mirror
\* with a stretch, and a singular one
LinearParts ==
    { <<<<R(1), R(0)>>, <<R(0), R(1)>>>>,
      <<<<Rat(1, 2), R(0)>>, <<R(0), Rat(1, 2)>>>>,
      <<<<R(0), R(-1)>>, <<R(1), R(0)>>>>,
      <<<<R(1), Rat(1, 2)>>, <<R(0), R(1)>>>>,
      <<<<Rat(-1, 2), R(0)>>, <<R(0), R(2)>>>>,
      <<<<R(1), R(1)>>, <<R(1), R(1)>>>> }

\* the third rows <<g, h, s>> of the homographies; s # 0, since M / M[2, 2]
\* asks for a matrix with M[2, 2] # 0
PerspRows ==
    { <<R(0), R(0), R(1)>>,
      <<R(0), R(0), R(2)>>,
      <<R(-1), R(0), R(1)>>,
      <<Rat(1, 2), R(0), R(1)>>,
      <<R(0), Rat(-1, 2), R(2)>> }

Affines ==
    { <<<<L[1][1], L[1][2], tx>>, <<L[2][1], L[2][2], ty>>>> :
        L \in LinearParts, tx \in Translations, ty \in Translations }

\* the affine part is scaled by s, so that M / M[2, 2] has that affine part
Homographies ==
    { <<RowScale(A[1], p[3]), RowScale(A[2], p[3]), p>> :
        A \in Affines, p \in PerspRows }

Sizes(m) == {[h |-> a, w |-> b] : a \in {1, m}, b \in {1, m}}

FlagValues ==
    { INTER_NEAREST, INTER_LINEAR,
      WARP_INVERSE_MAP, INTER_LINEAR + WARP_INVERSE_MAP,
      INTER_CUBIC + WARP_INVERSE_MAP }

Variants == {"warpPerspectivePadded", "warpAffinePadded"}

\* the two scenarios: the identity with a 100x50 source and a 200x150
\* destination, and a translation by (-20, -20) of a 100x100 source
Scenarios ==
    { [fn |-> f, src |-> [h |-> 50, w |-> 100], dst |-> [h |-> 150, w |-> 200],
       M |-> IF f = "warpAffinePadded"
             THEN <<<<R(1), R(0), R(0)>>, <<R(0), R(1), R(0)>>>>
             ELSE Eye3,
       flags |-> INTER_LINEAR] : f \in Variants }
    \cup
    { [fn |-> f, src |-> [h |-> 100, w |-> 100], dst |-> [h |-> 150, w |-> 200],
       M |-> IF f = "warpAffinePadded"
             THEN <<<<R(1), R(0), R(-20)>>, <<R(0), R(1), R(-20)>>>>
             ELSE <<<<R(1), R(0), R(-20)>>, <<R(0), R(1), R(-20)>>,
                    <<R(0), R(0), R(1)>>>>,
       flags |-> INTER_LINEAR] : f \in Variants }

\* the calls whose M has the shape the function asks for
WellShaped ==
    { [fn |-> "warpAffinePadded", src |-> s, dst |-> d, M |-> m, flags |-> fl] :
        s \in Sizes(MaxSrc), d \in Sizes(MaxDst), m \in Affines, fl \in FlagValues }
    \cup
    { [fn |-> "warpPerspectivePadded", src |-> s, dst |-> d, M |-> m, flags |-> fl] :
        s \in Sizes(MaxSrc), d \in Sizes(MaxDst), m \in Homographies,
        fl \in FlagValues }

\* the calls with the other function's shape of M
MisShaped ==
    { [fn |-> "warpAffinePadded", src |-> s, dst |-> s, M |-> m, flags |-> fl] :
        s \in Sizes(MaxSrc), m \in Homographies, fl \in FlagValues }
    \cup
    { [fn |-> "warpPerspectivePadded", src |-> s, dst |-> s, M |-> m, flags |-> fl] :
        s \in Sizes(MaxSrc), m \in Affines, fl \in FlagValues }

\* an invertible homography whose inverse has a zero [2, 2] element and
\* sends the source origin to (+inf, +inf), passed as the inverse map
ZeroInInverse ==
    { [fn |-> "warpPerspectivePadded", src |-> s, dst |-> d,
       M |-> <<<<R(1), R(-1), R(-1)>>, <<R(-1), R(1), R(-1)>>, <<R(1), R(1), R(1)>>>>,
       flags |-> WARP_INVERSE_MAP] : s \in Sizes(MaxSrc), d \in Sizes(MaxDst) }

Calls == WellShaped \cup MisShaped \cup Scenarios \cup ZeroInInverse

\* -------------------------------------------------------------- state
VARIABLES
    fn,             \* which function was called
    src, dst,       \* src.shape[:2] and dst.shape[:2] as [h, w]
    M0, flags0,     \* the arguments M and flags as passed
    M, flags,       \* the locals M and flags
    pc,             \* position in the function body
    err,            \* the exception raised, "" if none
    pts,            \* the four transformed corners
    box,            \* [min_x, min_y, max_x, max_y]
    anchor,         \* [x, y]
    shifted_transf, \* [ok, m]: ok is FALSE when m holds inf, nan or 2^63
    pad_widths,     \* <<top, bottom, left, right>>
    dst_padded, src_warped,
    ret             \* the returned tuple

vars == <<fn, src, dst, M0, flags0, M, flags, pc, err, pts, box, anchor,
          shifted_transf, pad_widths, dst_padded, src_warped, ret>>

NoImage == [h |-> 0, w |-> 0, of |-> "none"]

NoBox == [min_x |-> I64(0), min_y |-> I64(0), max_x |-> I64(0), max_y |-> I64(0)]

NoAnchor == [x |-> I64(0), y |-> I64(0)]

NoTransf == [ok |-> FALSE, m |-> <<>>]

Init ==
    \E c \in Calls :
        /\ fn = c.fn
        /\ src = c.src
        /\ dst = c.dst
        /\ M0 = c.M
        /\ flags0 = c.flags
        /\ M = c.M
        /\ flags = c.flags
        /\ pc = "assert"
        /\ err = ""
        /\ pts = <<>>
        /\ box = NoBox
        /\ anchor = NoAnchor
        /\ shifted_transf = NoTransf
        /\ pad_widths = <<>>
        /\ dst_padded = NoImage
        /\ src_warped = NoImage
        /\ ret = <<>>

\* ------------------------------------------------- the function body
IsPerspective == fn = "warpPerspectivePadded"

\* no test of the shape
AnyShape(f) == {<<2, 3>>, <<3, 3>>}

\* the shape the assert statement accepts
AcceptedShape(f) == IF f = "warpPerspectivePadded" THEN {<<3, 3>>} ELSE {<<2, 3>>}

\* the inverse-map bit of a flags value is set
HasInverseBit(fl) == (fl \div WARP_INVERSE_MAP) % 2 = 1

\* flags in (WARP_INVERSE_MAP, INTER_LINEAR + ..., INTER_NEAREST + ...)
InverseRequested(fl) ==
    fl \in { WARP_INVERSE_MAP,
             INTER_LINEAR + WARP_INVERSE_MAP,
             INTER_NEAREST + WARP_INVERSE_MAP }

\* the corners clockwise from the origin
CornerPts(s) == <<<<R(0), R(0)>>, <<R(s.w), R(0)>>, <<R(s.w), R(s.h)>>, <<R(0), R(s.h)>>>>

\* row i of A applied to the homogeneous point (p, 1)
RowDot(A, i, p) ==
    RAdd(RAdd(RMul(A[i][1], p[1]), RMul(A[i][2], p[2])), A[i][3])

\* M.dot(p) divided by its third component
PerspectivePt(A, p) ==
    <<RDiv(RowDot(A, 1, p), RowDot(A, 3, p)), RDiv(RowDot(A, 2, p), RowDot(A, 3, p))>>

\* M[:, :2].dot(p) + M[:, 2]
AffinePt(A, p) == <<RowDot(A, 1, p), RowDot(A, 2, p)>>

TransformPt(f, A, p) ==
    IF f = "warpPerspectivePadded" THEN PerspectivePt(A, p) ELSE AffinePt(A, p)

TransformPts(f, A, c) ==
    <<TransformPt(f, A, c[1]), TransformPt(f, A, c[2]),
      TransformPt(f, A, c[3]), TransformPt(f, A, c[4])>>

\* anchor = -min if min < 0, else 0
AnchorOf(mn) == IF IsNeg(mn) THEN Neg64(mn) ELSE I64(0)

\* transl_transf.dot(M) / its [2, 2] element
ShiftedPerspective(A, ax, ay) ==
    IF ax.sat # "no" \/ ay.sat # "no" THEN NoTransf
    ELSE LET T == <<<<R(1), R(0), R(ax.v)>>, <<R(0), R(1), R(ay.v)>>,
                    <<R(0), R(0), R(1)>>>>
             S == MatMul3(T, A)
             m == MatDiv(S, S[3][3])
         IN  [ok |-> MatFinite(m), m |-> m]

\* M + [[0, 0, anchor_x], [0, 0, anchor_y]]
ShiftedAffine(A, ax, ay) ==
    IF ax.sat # "no" \/ ay.sat # "no" THEN NoTransf
    ELSE [ok |-> TRUE,
          m |-> <<<<A[1][1], A[1][2], RAdd(A[1][3], R(ax.v))>>,
                  <<A[2][1], A[2][2], RAdd(A[2][3], R(ay.v))>>>>]

\* max(mx, d), without the subtraction
PadAfterNoSub(mx, d) ==
    IF mx.sat = "min" THEN I64(d)
    ELSE IF mx.sat = "max" THEN mx
    ELSE I64(IF mx.v > d THEN mx.v ELSE d)

\* max(mx, d) - d
PadAfter(mx, d) ==
    IF mx.sat = "min" THEN I64(0)
    ELSE IF mx.sat = "max" THEN [sat |-> "max", v |-> mx.v - d]
    ELSE I64((IF mx.v > d THEN mx.v ELSE d) - d)

\* [top, bottom, left, right]
PadWidths(b, an, d) ==
    <<an.y, PadAfter(b.max_y, d.h), an.x, PadAfter(b.max_x, d.w)>>

\* cv2.copyMakeBorder refuses a negative border and one that is no C int
BorderRefused(pw) == \E i \in 1..4 : pw[i].sat # "no" \/ pw[i].v < 0

\* cv2.copyMakeBorder(dst, top, bottom, left, right): dst is placed at (left, top)
copyMakeBorder(d, pw) ==
    [h |-> d.h + pw[1].v + pw[2].v, w |-> d.w + pw[3].v + pw[4].v,
     of |-> "dst", at |-> <<pw[3].v, pw[1].v>>]

\* (dst_pad_h, dst_pad_w): the height first
DsizeSwapped(img) == <<img.h, img.w>>

\* (dst_pad_w, dst_pad_h)
Dsize(img) == <<img.w, img.h>>

\* cv2.warpPerspective / cv2.warpAffine(src, A, dsize, flags): an image of
\* dsize[1] rows and dsize[0] columns
warp(f, A, dsize, fl) ==
    [h |-> dsize[2], w |-> dsize[1], of |-> "src", by |-> A, flags |-> fl,
     primitive |-> IF f = "warpPerspectivePadded" THEN "cv2.warpPerspective"
                   ELSE "cv2.warpAffine"]

\* ------------------------------------------------------------ actions
Raise(e) ==
    /\ pc' = "raised"
    /\ err' = e

\* assert M.shape == (3, 3) / (2, 3)
AssertShape ==
    /\ pc = "assert"
    /\ IF Shape(M) \in AcceptedShape(fn)
       THEN /\ pc' = IF IsPerspective THEN "normalize" ELSE "inverse"
            /\ err' = err
       ELSE Raise("AssertionError")
    /\ UNCHANGED <<fn, src, dst, M0, flags0, M, flags, pts, box, anchor,
                   shifted_transf, pad_widths, dst_padded, src_warped, ret>>

\* M = M / M[2, 2]
Normalize ==
    /\ pc = "normalize"
    /\ M' = MatDiv(M, M[3][3])
    /\ pc' = "inverse"
    /\ UNCHANGED <<fn, src, dst, M0, flags0, flags, err, pts, box, anchor,
                   shifted_transf, pad_widths, dst_padded, src_warped, ret>>

\* if flags in (...): M = the inverse; flags -= WARP_INVERSE_MAP
InverseMap ==
    /\ pc = "inverse"
    /\ IF InverseRequested(flags)
       THEN /\ M' = IF IsPerspective THEN cv2_invert(M)[2]
                    ELSE cv2_invertAffineTransform(M)
            /\ flags' = flags - WARP_INVERSE_MAP
       ELSE UNCHANGED <<M, flags>>
    /\ pc' = "project"
    /\ UNCHANGED <<fn, src, dst, M0, flags0, err, pts, box, anchor,
                   shifted_transf, pad_widths, dst_padded, src_warped, ret>>

\* transform the corners and find the min and max points
Project ==
    /\ pc = "project"
    /\ \E t \in {TransformPts(fn, M, CornerPts(src))} :
       LET xs == <<t[1][1], t[2][1], t[3][1], t[4][1]>>
           ys == <<t[1][2], t[2][2], t[3][2], t[4][2]>>
       IN  /\ pts' = t
           /\ \E mach \in Machines :
                 box' = [min_x |-> FloorInt(NpMin(xs), mach),
                         min_y |-> FloorInt(NpMin(ys), mach),
                         max_x |-> CeilInt(NpMax(xs), mach),
                         max_y |-> CeilInt(NpMax(ys), mach)]
    /\ pc' = "shift"
    /\ UNCHANGED <<fn, src, dst, M0, flags0, M, flags, err, anchor,
                   shifted_transf, pad_widths, dst_padded, src_warped, ret>>

\* add translation to the transformation matrix to shift to positive values
Shift ==
    /\ pc = "shift"
    /\ LET ax == AnchorOf(box.min_x)
           ay == AnchorOf(box.min_y)
       IN  /\ anchor' = [x |-> ax, y |-> ay]
           /\ shifted_transf' = IF IsPerspective THEN ShiftedPerspective(M, ax, ay)
                                ELSE ShiftedAffine(M, ax, ay)
    /\ pc' = "pad"
    /\ UNCHANGED <<fn, src, dst, M0, flags0, M, flags, err, pts, box,
                   pad_widths, dst_padded, src_warped, ret>>

\* create padded destination image
Pad ==
    /\ pc = "pad"
    /\ LET pw == PadWidths(box, anchor, dst)
       IN  /\ pad_widths' = pw
           /\ IF BorderRefused(pw)
              THEN /\ Raise("cv2.error")
                   /\ UNCHANGED dst_padded
              ELSE /\ dst_padded' = copyMakeBorder(dst, pw)
                   /\ pc' = "warp"
                   /\ err' = err
    /\ UNCHANGED <<fn, src, dst, M0, flags0, M, flags, pts, box, anchor,
                   shifted_transf, src_warped, ret>>

\* src_warped = cv2.warpPerspective / cv2.warpAffine(...)
Warp ==
    /\ pc = "warp"
    /\ src_warped' = warp(fn, shifted_transf, Dsize(dst_padded), flags)
    /\ pc' = "return"
    /\ UNCHANGED <<fn, src, dst, M0, flags0, M, flags, err, pts, box, anchor,
                   shifted_transf, pad_widths, dst_padded, ret>>

\* return dst_padded, src_warped
Return ==
    /\ pc = "return"
    /\ ret' = <<dst_padded, src_warped>>
    /\ pc' = "done"
    /\ UNCHANGED <<fn, src, dst, M0, flags0, M, flags, err, pts, box, anchor,
                   shifted_transf, pad_widths, dst_padded, src_warped>>

Next ==
    \/ AssertShape
    \/ Normalize
    \/ InverseMap
    \/ Project
    \/ Shift
    \/ Pad
    \/ Warp
    \/ Return

Spec == Init /\ [][Next]_vars

\* ------------------------------------------------------ vocabulary
Max(a, b) == IF a > b THEN a ELSE b

Returned == pc = "done"

\* the third component of M.dot((p, 1))
HomogW(p) == RowDot(M, 3, p)

CornerSet == {CornerPts(src)[i] : i \in 1..4}

\* some corner has a zero homogeneous coordinate
ZeroCorner == IsPerspective /\ Shape(M) = <<3, 3>> /\ \E c \in CornerSet : HomogW(c) = R(0)

\* the four projected corners are finite
FiniteCorners == \A i \in 1..4 : IsFinite(pts[i][1]) /\ IsFinite(pts[i][2])

\* the homogeneous coordinate has one sign, and is not zero, at the corners
OneSignCorners ==
    \/ \A c \in CornerSet : HomogW(c)[1] > 0
    \/ \A c \in CornerSet : HomogW(c)[1] < 0

\* the source points (x, y), 0 <= x <= src_W, 0 <= y <= src_H, on the grid
Grid ==
    { <<Rat(i, GridDen), Rat(j, GridDen)>> :
        i \in 0..(src.w * GridDen), j \in 0..(src.h * GridDen) }

CanvasW == anchor.x.v + Max(box.max_x.v, dst.w)

CanvasH == anchor.y.v + Max(box.max_y.v, dst.h)

\* the padded canvas has the size canvas_W x canvas_H
CanvasAsComputed == dst_padded.w = CanvasW /\ dst_padded.h = CanvasH

\* the point q lies in the padded canvas, [0, canvas_W] x [0, canvas_H]
InCanvas(q) ==
    /\ IsFinite(q[1]) /\ IsFinite(q[2])
    /\ RLe(R(0), q[1]) /\ RLe(q[1], R(dst_padded.w))
    /\ RLe(R(0), q[2]) /\ RLe(q[2], R(dst_padded.h))

\* project(M, p) + (anchor_x, anchor_y)
ProjectedShifted(p) ==
    LET q == TransformPt(fn, M, p)
    IN  <<RAdd(q[1], R(anchor.x.v)), RAdd(q[2], R(anchor.y.v))>>

\* the image of p under the transform handed to the resampling primitive
ShiftedImage(p) == TransformPt(fn, shifted_transf.m, p)

\* -------------------------------------------------------------- C1
\* C1: on every call that returns, the two returned images have the same
\* height and the same width, which are those of the padded destination.
C1_SameSize ==
    Returned =>
        /\ ret[1].h = ret[2].h
        /\ ret[1].w = ret[2].w
        /\ src_warped.h = dst_padded.h
        /\ src_warped.w = dst_padded.w

\* a call that returned a padded canvas that is not square
C1_Witness ==
    /\ Returned
    /\ ret[1].h # ret[1].w
    /\ anchor.x.v > 0
    /\ ret[2].w > dst.w

\* -------------------------------------------------------------- C3
\* C3: when the projected corners are finite, every projected corner, after
\* the anchor max(0, -min) is added, lies in [0, canvas_W] x [0, canvas_H],
\* and the padded destination has that canvas size.
C3_CornerContainment ==
    (pc \in {"warp", "return", "done"} /\ FiniteCorners) =>
        /\ anchor.x.v = Max(0, -box.min_x.v)
        /\ anchor.y.v = Max(0, -box.min_y.v)
        /\ CanvasAsComputed
        /\ \A i \in 1..4 :
              InCanvas(<<RAdd(pts[i][1], R(anchor.x.v)), RAdd(pts[i][2], R(anchor.y.v))>>)

\* a returned call whose projected box lies at negative x, with a corner at
\* a fractional coordinate
C3_Witness ==
    /\ Returned
    /\ FiniteCorners
    /\ box.max_x.v < 0
    /\ \E i \in 1..4 : pts[i][1][2] # 1

C4_CommonFrame ==
    Returned =>
        /\ dst_padded.at = <<anchor.x.v, anchor.y.v>>
        /\ pad_widths[1] = anchor.y /\ pad_widths[3] = anchor.x
        /\ src_warped.by = shifted_transf
        /\ shifted_transf.ok
        /\ IsPerspective => shifted_transf.m[3][3] = R(1)
        /\ \A p \in Grid :
              (IsPerspective => HomogW(p) # R(0)) => ShiftedImage(p) = ProjectedShifted(p)

\* the same on the calls whose four projected corners are finite
C4_CommonFrameFiniteCorners == (Returned /\ FiniteCorners) => C4_CommonFrame

\* the scenario: a 100x100 source translated by (-20, -20) has the anchor
\* (20, 20) and its origin at the canvas point (0, 0)
C4_Scenario ==
    (Returned /\ M0[1][3] = R(-20) /\ M0[2][3] = R(-20)) =>
        /\ anchor = [x |-> I64(20), y |-> I64(20)]
        /\ pad_widths[1] = I64(20) /\ pad_widths[3] = I64(20)
        /\ ShiftedImage(<<R(0), R(0)>>) = <<R(0), R(0)>>

\* -------------------------------------------------------------- C5
\* the forward map a call of the resampling primitive applies: the matrix,
\* inverted when the inverse-map bit is set, up to the homogeneous scale
ForwardMap(f, A, fl) ==
    IF f = "warpPerspectivePadded"
    THEN LET F == IF HasInverseBit(fl) THEN cv2_invert(A)[2] ELSE A
         IN  MatDiv(F, F[3][3])
    ELSE IF HasInverseBit(fl) THEN cv2_invertAffineTransform(A) ELSE A

\* the four projected corners lie in [0, dst_W] x [0, dst_H]
CornersInsideDst ==
    /\ FiniteCorners
    /\ \A i \in 1..4 :
          /\ RLe(R(0), pts[i][1]) /\ RLe(pts[i][1], R(dst.w))
          /\ RLe(R(0), pts[i][2]) /\ RLe(pts[i][2], R(dst.h))

\* C5: when the four corners project inside the destination, the anchors
\* and the four pad amounts are 0, the padded destination is the destination,
\* and the source is resampled as the unpadded primitive, called with M,
\* flags and the destination's size, resamples it.
C5_NoOpPadding ==
    (Returned /\ CornersInsideDst) =>
        /\ anchor = [x |-> I64(0), y |-> I64(0)]
        /\ pad_widths = <<I64(0), I64(0), I64(0), I64(0)>>
        /\ dst_padded = [h |-> dst.h, w |-> dst.w, of |-> "dst", at |-> <<0, 0>>]
        /\ src_warped.h = dst.h /\ src_warped.w = dst.w
        /\ src_warped.of = "src"
        /\ src_warped.flags % WARP_INVERSE_MAP = flags0 % WARP_INVERSE_MAP
        /\ ForwardMap(fn, src_warped.by.m, src_warped.flags) = ForwardMap(fn, M0, flags0)

\* a returned call of the inverse map whose corners project inside the
\* destination, with a corner at a fractional coordinate
C5_Witness ==
    /\ Returned
    /\ CornersInsideDst
    /\ flags0 = INTER_LINEAR + WARP_INVERSE_MAP
    /\ \E i \in 1..4 : pts[i][1][2] # 1

\* the scenario: identity, source 100x50, destination 200x150
C5_Scenario ==
    /\ Returned
    /\ src = [h |-> 50, w |-> 100]
    /\ dst_padded.h = 150 /\ dst_padded.w = 200
    /\ src_warped.h = 150 /\ src_warped.w = 200

\* -------------------------------------------------------------- C6
\* the forward transform of the arguments: M (normalised in the perspective
\* variant), inverted when the inverse-map bit of the flags is set
ForwardOfArguments ==
    LET N == IF IsPerspective THEN MatDiv(M0, M0[3][3]) ELSE M0
    IN  IF ~HasInverseBit(flags0) THEN N
        ELSE IF IsPerspective THEN cv2_invert(N)[2]
        ELSE cv2_invertAffineTransform(N)

\* C6: past the inverse-map block, a flags value with the inverse-map bit
\* has had the transform inverted and the bit cleared, the interpolation
\* method unchanged; a flags value without it leaves both as given; and the
\* resampling primitive never gets the bit.
C6_InverseMap ==
    /\ (pc \in {"project", "shift", "pad", "warp", "return", "done"}) =>
          /\ M = ForwardOfArguments
          /\ ~HasInverseBit(flags)
          /\ flags % WARP_INVERSE_MAP = flags0 % WARP_INVERSE_MAP
    /\ pc \in {"return", "done"} => ~HasInverseBit(src_warped.flags)

\* -------------------------------------------------------------- C7
\* M is not 3x3 in the perspective variant, not 2x3 in the affine variant
WrongShape ==
    \/ IsPerspective /\ Shape(M0) # <<3, 3>>
    \/ ~IsPerspective /\ Shape(M0) # <<2, 3>>

\* C7: a call whose M has not the shape the function asks for raises at the
\* assert and does nothing else: no local is assigned, nothing is returned.
C7_ShapeValidation ==
    WrongShape =>
        /\ pc \in {"assert", "raised"}
        /\ pc = "raised" => err = "AssertionError"
        /\ M = M0 /\ flags = flags0
        /\ pts = <<>> /\ box = NoBox /\ anchor = NoAnchor
        /\ shifted_transf = NoTransf /\ pad_widths = <<>>
        /\ dst_padded = NoImage /\ src_warped = NoImage /\ ret = <<>>

\* a call of the perspective variant with a 2x3 matrix that ended at the assert
C7_Witness ==
    /\ pc = "raised"
    /\ err = "AssertionError"
    /\ fn = "warpPerspectivePadded"
    /\ Shape(M0) = <<2, 3>>

\* -------------------------------------------------------------- C8
\* C8: in the perspective variant, a corner with a zero homogeneous
\* coordinate ends the call in a degenerate-transform error: no bounding
\* box, pad amount or warp is computed from that division.
C8_DegenerateIsError ==
    (ZeroCorner /\ pc \notin {"assert", "normalize", "inverse", "project"}) =>
        /\ pc = "raised"
        /\ err = "DegenerateTransformError"
        /\ box = NoBox /\ pad_widths = <<>> /\ src_warped = NoImage /\ ret = <<>>

\* -------------------------------------------------------------- C9
\* the transform passed is not invertible
SingularArgument ==
    IF IsPerspective THEN Det3(M0) = R(0)
    ELSE Det2(M0[1][1], M0[1][2], M0[2][1], M0[2][2]) = R(0)

\* C9: with the inverse-map flag and a transform that is not invertible the
\* call raises a singular-matrix error: the matrix of the failed inversion
\* is not used to project the corners, and nothing is returned.
C9_SingularIsError ==
    (/\ ~WrongShape
     /\ HasInverseBit(flags0)
     /\ SingularArgument
     /\ pc \notin {"assert", "normalize", "inverse"}) =>
        /\ pc = "raised"
        /\ err = "SingularMatrixError"
        /\ pts = <<>> /\ ret = <<>>

\* ------------------------------------------------------------- C10
\* C10: a call that returns, returns the warped source first and the padded
\* destination second.
C10_ReturnOrder ==
    Returned =>
        /\ ret[1] = src_warped /\ ret[1].of = "src"
        /\ ret[2] = dst_padded /\ ret[2].of = "dst"

====
